---- MODULE Spec2Model ----
(***************************************************************************)
(* A model of backup.py: one run of main() -- credential resolution,       *)
(* output directory creation, the control-channel session that yields a   *)
(* (download URL, token) pair, the HTTP fetch, the write of the backup     *)
(* file and the retention pruning of the output directory.                 *)
(*                                                                         *)
(* Python strings are sequences of one-character strings, so that strip,   *)
(* startswith, endswith and rstrip are computed as the code computes them. *)
(* A Python value that may be None, a str or an int is a record            *)
(* [t, s, n] (type tag, string payload, integer payload).                  *)
(***************************************************************************)
EXTENDS Integers, Sequences, FiniteSets, TLC

\* ------------------------------------------------------------------ bounds

\* pre-existing backup files carry the name stamps 1..MaxFiles
MaxFiles == 3
\* modification times and the clock of the run range over 1..MaxTime
MaxTime == 2
\* --retention ranges over -1..MaxRetention
MaxRetention == 2
\* a sequence reply of core.download has at most MaxListLen elements
MaxListLen == 3
\* a host is given with 0..MaxSlashes trailing slashes
MaxSlashes == 1

\* ------------------------------------------------------------ Python values

PyNone == [t |-> "none", s |-> <<>>, n |-> 0]
PyStr(s) == [t |-> "str", s |-> s, n |-> 0]
PyInt(n) == [t |-> "int", s |-> <<>>, n |-> n]
\* a key that a mapping reply does not hold
Absent == [t |-> "absent", s |-> <<>>, n |-> 0]

\* Python truthiness of None, a str or an int (`if x:`, `not x`, `x or y`)
Truthy(v) ==
    \/ v.t = "str" /\ v.s # <<>>
    \/ v.t = "int" /\ v.n # 0

\* Python `a or b`
PyOr(a, b) == IF Truthy(a) THEN a ELSE b

\* ------------------------------------------------------------------ strings

StartsWith(s, p) == Len(s) >= Len(p) /\ SubSeq(s, 1, Len(p)) = p
EndsWith(s, p) == Len(s) >= Len(p) /\ SubSeq(s, Len(s) - Len(p) + 1, Len(s)) = p
\* s[n:]
DropPrefix(s, n) == SubSeq(s, n + 1, Len(s))

Whitespace == {" ", "\n", "\t"}

RECURSIVE RStripChars(_, _)
\* str.rstrip(chars): drop every trailing character that is in cs
RStripChars(s, cs) ==
    IF s # <<>> /\ s[Len(s)] \in cs
    THEN RStripChars(SubSeq(s, 1, Len(s) - 1), cs)
    ELSE s

RECURSIVE LStripChars(_, _)
LStripChars(s, cs) ==
    IF s # <<>> /\ s[1] \in cs
    THEN LStripChars(SubSeq(s, 2, Len(s)), cs)
    ELSE s

\* str.strip(): whitespace off both ends
Strip(s) == LStripChars(RStripChars(s, Whitespace), Whitespace)
\* str.rstrip('/')
RStripSlash(s) == RStripChars(s, {"/"})

\* the number of places where p occurs in s
Occurrences(s, p) ==
    Cardinality({i \in 1..Len(s) : i + Len(p) - 1 <= Len(s) /\ SubSeq(s, i, i + Len(p) - 1) = p})

WS == <<"w", "s", ":", "/", "/">>
WSS == <<"w", "s", "s", ":", "/", "/">>
HTTP == <<"h", "t", "t", "p", ":", "/", "/">>
HTTPS == <<"h", "t", "t", "p", "s", ":", "/", "/">>
ApiCurrent == <<"/", "a", "p", "i", "/", "c", "u", "r", "r", "e", "n", "t">>

\* ------------------------------------------------------- address normalizers

build_ws_base(host) ==
    LET h == Strip(host) IN
    IF StartsWith(h, WS) \/ StartsWith(h, WSS) THEN RStripSlash(h)
    ELSE IF StartsWith(h, HTTP) THEN WS \o RStripSlash(DropPrefix(h, Len(HTTP)))
    ELSE IF StartsWith(h, HTTPS) THEN WSS \o RStripSlash(DropPrefix(h, Len(HTTPS)))
    ELSE WSS \o h

build_http_base(host) ==
    LET h == Strip(host) IN
    IF StartsWith(h, HTTP) \/ StartsWith(h, HTTPS) THEN RStripSlash(h)
    ELSE IF StartsWith(h, WS) THEN HTTP \o RStripSlash(DropPrefix(h, Len(WS)))
    ELSE IF StartsWith(h, WSS) THEN HTTPS \o RStripSlash(DropPrefix(h, Len(WSS)))
    ELSE HTTPS \o h

\* a slip: the suffix is appended without looking at the end of the base
ws_api_url_always_appends(host) == build_ws_base(host) \o ApiCurrent

ws_api_url(host) ==
    LET base == build_ws_base(host) IN
    IF EndsWith(base, ApiCurrent) THEN base ELSE base \o ApiCurrent

http_api_base(host) == build_http_base(host)

\* ---------------------------------------------------------- credential read

\* The key file as open()/read() finds it: unreadable, or its text.
Unreadable == [t |-> "unreadable", s |-> <<>>, n |-> 0]

\* a slip: the environment variable is looked at first
read_api_key_env_first(explicit_key, api_key_file, key_file, env_key) ==
    IF Truthy(env_key) THEN [raised |-> FALSE, key |-> PyStr(Strip(env_key.s))]
    ELSE IF Truthy(explicit_key) THEN [raised |-> FALSE, key |-> PyStr(Strip(explicit_key.s))]
    ELSE IF Truthy(api_key_file)
         THEN IF key_file = Unreadable
              THEN [raised |-> TRUE, key |-> PyNone]
              ELSE [raised |-> FALSE, key |-> PyStr(Strip(key_file.s))]
    ELSE [raised |-> FALSE, key |-> PyNone]

\* read_api_key: [raised, key]; raised when open() of the key file raises
read_api_key(explicit_key, api_key_file, key_file, env_key) ==
    IF Truthy(explicit_key) THEN [raised |-> FALSE, key |-> PyStr(Strip(explicit_key.s))]
    ELSE IF Truthy(api_key_file)
         THEN IF key_file = Unreadable
              THEN [raised |-> TRUE, key |-> PyNone]
              ELSE [raised |-> FALSE, key |-> PyStr(Strip(key_file.s))]
    ELSE IF Truthy(env_key) THEN [raised |-> FALSE, key |-> PyStr(Strip(env_key.s))]
    ELSE [raised |-> FALSE, key |-> PyNone]

\* ------------------------------------------------- reply of core.download

ReplyKeys == {"url", "result", "job_url", "token", "auth_token"}
EmptyDict == [k \in ReplyKeys |-> Absent]

\* A reply is a mapping (d), a sequence (l) or anything else (v).
DictReply(d) == [shape |-> "dict", d |-> d, l |-> <<>>, v |-> PyNone]
ListReply(l) == [shape |-> "list", d |-> EmptyDict, l |-> l, v |-> PyNone]
OtherReply(v) == [shape |-> "other", d |-> EmptyDict, l |-> <<>>, v |-> v]

\* dict.get(k): None when the key is missing
Get(d, k) == IF d[k] = Absent THEN PyNone ELSE d[k]
\* result[i], Python's zero-based indexing
PyIndex(l, i) == l[i + 1]

Returned(url, tok) == [raised |-> FALSE, err |-> "", dl_url |-> url, token |-> tok]
Raised(msg) == [raised |-> TRUE, err |-> msg, dl_url |-> PyNone, token |-> PyNone]

\* a slip: the sequence form is read from its first element on
parse_result_from_element_0(result) ==
    LET found ==
            IF result.shape = "dict"
            THEN [ok |-> TRUE,
                  dl_url |-> PyOr(PyOr(Get(result.d, "url"), Get(result.d, "result")),
                                  Get(result.d, "job_url")),
                  token |-> PyOr(Get(result.d, "token"), Get(result.d, "auth_token"))]
            ELSE IF result.shape = "list" /\ Len(result.l) >= 2
            THEN [ok |-> TRUE,
                  dl_url |-> PyIndex(result.l, 0),
                  token |-> PyIndex(result.l, 1)]
            ELSE [ok |-> FALSE, dl_url |-> PyNone, token |-> PyNone]
    IN  IF ~found.ok THEN Raised("Unexpected response from core.download")
        ELSE IF ~Truthy(found.dl_url) THEN Raised("No download URL returned by core.download")
        ELSE Returned(found.dl_url, PyOr(found.token, PyStr(<<>>)))

\* lines 90-100 of start_download_session: the reply turned into (dl_url, token)
parse_result(result) ==
    LET found ==
            IF result.shape = "dict"
            THEN [ok |-> TRUE,
                  dl_url |-> PyOr(PyOr(Get(result.d, "url"), Get(result.d, "result")),
                                  Get(result.d, "job_url")),
                  token |-> PyOr(Get(result.d, "token"), Get(result.d, "auth_token"))]
            ELSE IF result.shape = "list" /\ Len(result.l) >= 2
            THEN [ok |-> TRUE,
                  dl_url |-> PyIndex(result.l, 1),
                  token |-> IF Len(result.l) >= 3 THEN PyIndex(result.l, 2) ELSE PyNone]
            ELSE [ok |-> FALSE, dl_url |-> PyNone, token |-> PyNone]
    IN  IF ~found.ok THEN Raised("Unexpected response from core.download")
        ELSE IF ~Truthy(found.dl_url) THEN Raised("No download URL returned by core.download")
        ELSE Returned(found.dl_url, PyOr(found.token, PyStr(<<>>)))

\* ------------------------------------------------------ output directory

\* A directory entry: its name (stem, stamp, extension), its kind and mtime.
BackupName(stamp) == [stem |-> "truenas_config_", stamp |-> stamp, ext |-> ".tar"]
NotesName == [stem |-> "notes", stamp |-> 0, ext |-> ".txt"]
Entry(name, kind, mtime) == [name |-> name, kind |-> kind, mtime |-> mtime]

\* glob('truenas_config_*.tar')
Matches(name) == name.stem = "truenas_config_" /\ name.ext = ".tar"
\* [f for f in glob(...) if f.is_file()]
BackupFiles(d) == {e \in d : Matches(e.name) /\ e.kind = "file"}
Names(es) == {e.name : e \in es}
EntryOf(d, name) == CHOOSE e \in d : e.name = name
Remove(d, name) == {e \in d : e.name # name}

\* the orders of a finite set
Orders(S) ==
    {f \in [1..Cardinality(S) -> S] : \A i, j \in 1..Cardinality(S) : i # j => f[i] # f[j]}

\* a slip: reverse=True forgotten, oldest first
sorted_oldest_first(d) ==
    {f \in Orders(Names(BackupFiles(d))) :
        \A i, j \in 1..Len(f) : i < j => EntryOf(d, f[i]).mtime <= EntryOf(d, f[j]).mtime}

\* sorted(..., key=st_mtime, reverse=True): glob yields the files in any order
\* and the sort is stable, so files of equal mtime come in any order
sorted_by_mtime(d) ==
    {f \in Orders(Names(BackupFiles(d))) :
        \A i, j \in 1..Len(f) : i < j => EntryOf(d, f[i]).mtime >= EntryOf(d, f[j]).mtime}

\* a slip: files[:-retention], the newest are the ones deleted
slice_keeps_tail(files, n) == SubSeq(files, 1, Len(files) - n)

\* a slip: one file too many is kept
slice_from_retention_plus_one(files, n) == SubSeq(files, n + 2, Len(files))

\* files[retention:]
slice_from_retention(files, n) == SubSeq(files, n + 1, Len(files))

Range(f) == {f[i] : i \in 1..Len(f)}

\* ------------------------------------------------------------------- state

VARIABLES
    pc,            \* where main() is
    explicit_key,  \* args.api_key
    api_key_file,  \* args.api_key_file
    key_file,      \* what open(api_key_file) finds
    env_key,       \* os.environ.get('TRUENAS_API_KEY')
    host,          \* args.host
    retention,     \* args.retention
    server_reply,  \* what the appliance answers to core.download
    now,           \* the clock at the write: datetime.now() and the new file's mtime
    api_key,       \* main's api_key
    dir,           \* the entries of args.out_dir
    conn_open,     \* the control-channel connection of `with Client(...)` is open
    uri,           \* start_download_session's uri
    result,        \* start_download_session's result
    download,      \* main's (download_url, token)
    request,       \* the GET download_file issues: [url, auth_token]
    files,         \* enforce_retention's files
    idx,           \* the place of the loop of enforce_retention in files (1-based)
    returned,      \* main's return value, -1 while there is none
    diag,          \* what main printed to stderr
    steps,         \* history: the steps begun, in order
    failure,       \* history: the failure that ended the run ("" when none)
    dir_init,      \* history: dir when main started
    dir_at_prune,  \* history: dir when enforce_retention was entered
    attempted,     \* history: the names unlink() was called on
    unlink_failed  \* history: the names whose unlink() raised

vars == <<pc, explicit_key, api_key_file, key_file, env_key, host, retention, server_reply,
          now, api_key, dir, conn_open, uri, result, download, request, files, idx,
          returned, diag, steps, failure, dir_init, dir_at_prune, attempted, unlink_failed>>

inputs == <<explicit_key, api_key_file, key_file, env_key, host, retention, server_reply,
            now, dir_init>>
session_vars == <<conn_open, uri, result>>
prune_vars == <<files, idx, dir_at_prune, attempted, unlink_failed>>

\* ------------------------------------------------------------------ inputs

KeyPath == <<"k", "e", "y", "f">>
HostH == <<"h">>
HostIp == <<"1", "2", "7", ".", "0", ".", "0", ".", "1">>

ExplicitKeys == {PyNone, PyStr(<<>>), PyStr(<<" ">>), PyStr(<<"k">>), PyStr(<<" ", "k", "\n">>)}
KeyFileArgs == {PyNone, PyStr(KeyPath)}
KeyFiles == {Unreadable, PyStr(<<>>), PyStr(<<"f", "\n">>)}
EnvKeys == {PyNone, PyStr(<<>>), PyStr(<<"e">>)}

Slashes(n) == [i \in 1..n |-> "/"]
Schemes == {<<>>, HTTP, HTTPS, WS, WSS}
\* bare host or IP, http://, https://, ws://, wss://, with or without /api/current
ClaimedHostForms ==
    {sch \o h \o tail : sch \in Schemes, h \in {HostH, HostIp}, tail \in {<<>>, ApiCurrent}}
\* the same with trailing slashes and surrounding whitespace
HostForms ==
    {pad \o f \o Slashes(n) \o pad : f \in ClaimedHostForms, n \in 0..MaxSlashes, pad \in {<<>>, <<" ">>}}

RelUrl == PyStr(<<"/", "d">>)
AbsUrl == PyStr(HTTPS \o <<"x", "/", "d">>)
Token == PyStr(<<"a", "b", "c">>)
DictValues == {Absent, PyNone, PyStr(<<>>), RelUrl, PyInt(7)}
ListValues == {PyNone, PyStr(<<>>), RelUrl, Token, PyInt(7)}
ListsUpTo(n) == UNION {[1..k -> ListValues] : k \in 0..n}
Replies ==
    {DictReply(d) : d \in [ReplyKeys -> DictValues]}
    \cup {ListReply(l) : l \in ListsUpTo(MaxListLen)}
    \cup {OtherReply(v) : v \in {PyNone, Token, PyInt(7)}}
\* the two documented shapes, an absolute URL, and a reply without a URL
FewReplies ==
    {DictReply([EmptyDict EXCEPT !["url"] = RelUrl, !["token"] = Token]),
     ListReply(<<Token, AbsUrl>>),
     DictReply(EmptyDict)}

Stamps == 1..MaxFiles
Times == 1..MaxTime
\* what a pre-existing name can be: missing, a file of some mtime, a directory
Slots == {[kind |-> "none", mtime |-> 0]}
         \cup {[kind |-> "file", mtime |-> t] : t \in Times}
         \cup {[kind |-> "dir", mtime |-> 1]}
DirOf(slot, notes) ==
    {Entry(BackupName(st), slot[st].kind, slot[st].mtime) : st \in {x \in Stamps : slot[x].kind # "none"}}
    \cup (IF notes THEN {Entry(NotesName, "file", 1)} ELSE {})
Dirs == {DirOf(slot, notes) : slot \in [Stamps -> Slots], notes \in BOOLEAN}
OneOldBackup == {Entry(BackupName(1), "file", 1)}
Retentions == (0 - 1)..MaxRetention

NoDownload == [dl_url |-> PyNone, token |-> PyNone]
NoRequest == [url |-> <<>>, auth_token |-> PyNone]
NoDiag == [line |-> "", status |-> 0]

\* the state main() starts in, whatever the inputs
Start ==
    /\ pc = "read_api_key"
    /\ api_key = PyNone
    /\ dir = dir_init
    /\ conn_open = FALSE
    /\ uri = <<>>
    /\ result = OtherReply(PyNone)
    /\ download = NoDownload
    /\ request = NoRequest
    /\ files = <<>>
    /\ idx = 0
    /\ returned = 0 - 1
    /\ diag = NoDiag
    /\ steps = <<>>
    /\ failure = ""
    /\ dir_at_prune = {}
    /\ attempted = {}
    /\ unlink_failed = {}

\* every output directory, clock and retention count; few keys, hosts and replies
Init ==
    /\ explicit_key \in {PyNone, PyStr(<<"k">>)}
    /\ api_key_file = PyNone
    /\ key_file = Unreadable
    /\ env_key = PyNone
    /\ host = HostH
    /\ retention \in Retentions
    /\ server_reply \in FewReplies
    /\ now \in Times
    /\ dir_init \in Dirs
    /\ Start

\* every combination of the three key sources
InitKeys ==
    /\ explicit_key \in ExplicitKeys
    /\ api_key_file \in KeyFileArgs
    /\ key_file \in KeyFiles
    /\ env_key \in EnvKeys
    /\ host = HostH
    /\ retention = 1
    /\ server_reply \in FewReplies
    /\ now = MaxTime
    /\ dir_init = OneOldBackup
    /\ Start

\* every host form
InitHosts ==
    /\ explicit_key = PyStr(<<"k">>)
    /\ api_key_file = PyNone
    /\ key_file = Unreadable
    /\ env_key = PyNone
    /\ host \in HostForms
    /\ retention = 1
    /\ server_reply \in FewReplies
    /\ now = MaxTime
    /\ dir_init = OneOldBackup
    /\ Start

\* every reply of core.download
InitReplies ==
    /\ explicit_key = PyStr(<<"k">>)
    /\ api_key_file = PyNone
    /\ key_file = Unreadable
    /\ env_key = PyNone
    /\ host = HostH
    /\ retention = 1
    /\ server_reply \in Replies
    /\ now = MaxTime
    /\ dir_init = OneOldBackup
    /\ Start

\* ----------------------------------------------------------------- actions

Go(next) == pc' = next /\ UNCHANGED <<returned, diag, failure>>

\* main returns code after printing line to stderr
Finish(code, line, status, why) ==
    /\ pc' = "done"
    /\ returned' = code
    /\ diag' = [line |-> line, status |-> status]
    /\ failure' = why

\* an exception nothing in main catches: main returns nothing and prints nothing
Propagate(why) ==
    /\ pc' = "raised"
    /\ failure' = why
    /\ UNCHANGED <<returned, diag>>

\* a slip: the handler prints and forgets to return
HandleErrorFallsThrough(line, status, why) ==
    /\ pc' = "write"
    /\ returned' = returned
    /\ diag' = [line |-> line, status |-> status]
    /\ failure' = why

\* the except clauses of main: print one line, return 1
HandleError(line, status, why) == Finish(1, line, status, why)

\* a slip: the connection is not closed on the way out
with_exit_leaks(open) == open

\* Client.__exit__ at the end of the with block, however it is left
with_exit(open) == FALSE

\* api_key = read_api_key(...); if not api_key: return 2
ReadApiKey ==
    /\ pc = "read_api_key"
    /\ LET r == read_api_key(explicit_key, api_key_file, key_file, env_key) IN
       /\ api_key' = r.key
       /\ IF r.raised THEN Propagate("key_file")
          ELSE IF ~Truthy(r.key) THEN Finish(2, "Error: API key not provided", 0, "no_key")
          ELSE Go("ensure_output_dir")
    /\ UNCHANGED <<inputs, dir, session_vars, download, request, prune_vars, steps>>

\* ensure_output_dir(args.out_dir), outside the try
EnsureOutputDir ==
    /\ pc = "ensure_output_dir"
    /\ steps' = Append(steps, "mkdir")
    /\ \/ Go("connect")
       \/ Propagate("mkdir")
    /\ UNCHANGED <<inputs, api_key, dir, session_vars, download, request, prune_vars>>

\* start_download_session up to the entry of the with block. verify_tls and the
\* ssl context only bear on whether the connection is made, which is either way.
Connect ==
    /\ pc = "connect"
    /\ steps' = Append(steps, "session")
    /\ uri' = ws_api_url(host)
    /\ \/ conn_open' = TRUE /\ Go("login")
       \/ conn_open' = FALSE /\ HandleError("Error", 0, "connect")
    /\ UNCHANGED <<inputs, api_key, dir, result, download, request, prune_vars>>

\* client.call('auth.login_with_api_key', api_key)
Login ==
    /\ pc = "login"
    /\ \/ Go("call") /\ UNCHANGED conn_open
       \/ conn_open' = with_exit(conn_open) /\ HandleError("Error", 0, "login")
    /\ UNCHANGED <<inputs, api_key, dir, uri, result, download, request, prune_vars, steps>>

\* result = client.call('core.download', 'config.save', [args], 'config.tar')
CallDownload ==
    /\ pc = "call"
    /\ \/ result' = server_reply /\ Go("parse") /\ UNCHANGED conn_open
       \/ conn_open' = with_exit(conn_open) /\ HandleError("Error", 0, "call") /\ UNCHANGED result
    /\ UNCHANGED <<inputs, api_key, dir, uri, download, request, prune_vars, steps>>

\* the rest of the with block: the reply is parsed, the block is left
ParseResult ==
    /\ pc = "parse"
    /\ conn_open' = with_exit(conn_open)
    /\ LET r == parse_result(result) IN
       IF r.raised
       THEN HandleError("Error", 0, r.err) /\ UNCHANGED download
       ELSE download' = [dl_url |-> r.dl_url, token |-> r.token] /\ Go("fetch")
    /\ UNCHANGED <<inputs, api_key, dir, uri, result, request, prune_vars, steps>>

\* download_file(args.host, download_url, token, verify_tls)
DownloadFile ==
    /\ pc = "fetch"
    /\ steps' = Append(steps, "fetch")
    /\ IF download.dl_url.t # "str"
       THEN \* download_url.startswith raises AttributeError
            HandleError("Error", 0, "url_type") /\ UNCHANGED request
       ELSE LET base == http_api_base(host)
                u == download.dl_url.s
                full_url == IF StartsWith(u, HTTP) \/ StartsWith(u, HTTPS) THEN u ELSE base \o u
            IN  /\ request' = [url |-> full_url,
                               auth_token |-> IF Truthy(download.token) THEN download.token ELSE PyNone]
                /\ \/ Go("write")
                   \/ HandleError("HTTP error", 403, "http")
                   \/ HandleError("Error", 0, "transport")
    /\ UNCHANGED <<inputs, api_key, dir, session_vars, download, prune_vars>>

\* with open(out_path, 'wb') as f: f.write(content), outside the try
WriteFile ==
    /\ pc = "write"
    /\ steps' = Append(steps, "write")
    /\ LET name == BackupName(now)
           written == Remove(dir, name) \cup {Entry(name, "file", now)}
       IN  IF \E e \in dir : e.name = name /\ e.kind = "dir"
           THEN Propagate("write") /\ UNCHANGED dir
           ELSE \/ Propagate("write") /\ UNCHANGED dir      \* open raises
                \/ Propagate("write") /\ dir' = written     \* write raises
                \/ Go("prune") /\ dir' = written
    /\ UNCHANGED <<inputs, api_key, session_vars, download, request, prune_vars>>

\* enforce_retention up to its loop; main returns 0 when it returns at once
EnforceRetention ==
    /\ pc = "prune"
    /\ steps' = Append(steps, "prune")
    /\ dir_at_prune' = dir
    /\ IF retention <= 0
       THEN Finish(0, diag.line, diag.status, "") /\ UNCHANGED <<dir, files, idx>>
       ELSE \/ \E f \in sorted_by_mtime(dir) :
                 /\ files' = f
                 /\ idx' = 1
                 /\ Go("unlink")
                 /\ UNCHANGED dir
            \/ \E e \in BackupFiles(dir) :     \* the file is gone when stat() looks
                 /\ dir' = Remove(dir, e.name)
                 /\ Propagate("stat")
                 /\ UNCHANGED <<files, idx>>
    /\ UNCHANGED <<inputs, api_key, session_vars, download, request, attempted, unlink_failed>>

\* a slip: the error of unlink() is not caught
PropagateUnlinkError(name) ==
    /\ unlink_failed' = unlink_failed \cup {name}
    /\ idx' = idx
    /\ Propagate("unlink")

\* except Exception: pass
SwallowUnlinkError(name) ==
    /\ unlink_failed' = unlink_failed \cup {name}
    /\ idx' = idx + 1
    /\ Go("unlink")

\* one pass of `for old in files[retention:]`
Unlink ==
    /\ pc = "unlink"
    /\ idx <= Len(slice_from_retention(files, retention))
    /\ LET old == slice_from_retention(files, retention)[idx] IN
       /\ attempted' = attempted \cup {old}
       /\ \/ dir' = Remove(dir, old) /\ idx' = idx + 1 /\ Go("unlink") /\ UNCHANGED unlink_failed
          \/ dir' = dir /\ SwallowUnlinkError(old)                \* locked
          \/ dir' = Remove(dir, old) /\ SwallowUnlinkError(old)   \* already removed
    /\ UNCHANGED <<inputs, api_key, session_vars, download, request, files, dir_at_prune, steps>>

\* the loop is over: enforce_retention returns, main returns 0
PruneReturn ==
    /\ pc = "unlink"
    /\ idx > Len(slice_from_retention(files, retention))
    /\ Finish(0, diag.line, diag.status, "")
    /\ UNCHANGED <<inputs, api_key, dir, session_vars, download, request, prune_vars, steps>>

Next ==
    \/ ReadApiKey
    \/ EnsureOutputDir
    \/ Connect
    \/ Login
    \/ CallDownload
    \/ ParseResult
    \/ DownloadFile
    \/ WriteFile
    \/ EnforceRetention
    \/ Unlink
    \/ PruneReturn

Spec == Init /\ [][Next]_vars
SpecKeys == InitKeys /\ [][Next]_vars
SpecHosts == InitHosts /\ [][Next]_vars
SpecReplies == InitReplies /\ [][Next]_vars

\* ------------------------------------------------------------------ claims

Min(a, b) == IF a <= b THEN a ELSE b
NewName == BackupName(now)
SessionFailures ==
    {"connect", "login", "call", "Unexpected response from core.download",
     "No download URL returned by core.download"}
FetchFailures == {"url_type", "http", "transport"}
\* the files left, other than those whose unlink() raised
LeftApartFromFailed == {e \in BackupFiles(dir) : e.name \notin unlink_failed}

\* C1, as claimed: after a run that returns 0 with retention N >= 1, at most N
\* backup files remain, whatever the outcome of the deletions.
C1_AtMostNWhateverDeletions ==
    (pc = "done" /\ returned = 0 /\ retention >= 1)
        => Cardinality(BackupFiles(dir)) <= retention

\* C1, amended: after a run that returns 0 with retention N >= 1, at most N
\* backup files remain apart from those whose deletion failed.
C1_AtMostNApartFromFailed ==
    (pc = "done" /\ returned = 0 /\ retention >= 1)
        => Cardinality(LeftApartFromFailed) <= retention

C1_Witness ==
    /\ pc = "done" /\ returned = 0 /\ retention >= 1
    /\ Cardinality(BackupFiles(dir_at_prune)) > retention + 1
    /\ unlink_failed # {}
    /\ Cardinality(BackupFiles(dir)) > retention
    /\ attempted # unlink_failed

\* C2: with N >= 1 and every deletion succeeding, enforce_retention leaves exactly
\* the min(N, count) backup files of greatest mtime and removes the other backup
\* files and nothing else; with N <= 0 it deletes nothing.
C2_KeepsNewestN ==
    (pc = "done" /\ returned = 0) =>
        LET before == BackupFiles(dir_at_prune)
            after == BackupFiles(dir)
        IN  IF retention <= 0
            THEN dir = dir_at_prune /\ attempted = {}
            ELSE unlink_failed = {} =>
                   /\ after \subseteq before
                   /\ Cardinality(after) = Min(retention, Cardinality(before))
                   /\ \A k \in after : \A r \in before \ after : k.mtime >= r.mtime
                   /\ dir \ after = dir_at_prune \ before

C2_Witness ==
    /\ pc = "done" /\ returned = 0 /\ retention >= 1 /\ unlink_failed = {}
    /\ Cardinality(BackupFiles(dir_at_prune)) >= retention + 2
    /\ Cardinality(BackupFiles(dir)) = retention
    /\ dir \ BackupFiles(dir) # {}

\* C3: the steps begin in the order session, fetch, write, prune, each at most
\* once; a run whose session initiation or fetch failed returns 1 having written
\* and pruned nothing, the output directory being as it was.
C3_OrderAndNoWriteOnFailure ==
    /\ \E k \in 0..5 : steps = SubSeq(<<"mkdir", "session", "fetch", "write", "prune">>, 1, k)
    /\ failure \in SessionFailures \cup FetchFailures =>
          /\ pc = "done" /\ returned = 1
          /\ "write" \notin Range(steps) /\ "prune" \notin Range(steps)
          /\ dir = dir_init

C3_Witness ==
    /\ pc = "done" /\ failure = "http" /\ diag.status = 403 /\ returned = 1
    /\ BackupFiles(dir_init) # {}
    /\ steps = <<"mkdir", "session", "fetch">>

\* C4, as claimed: every failure after the API key is resolved ends with main
\* printing a one-line diagnostic and returning 1.
C4_EveryFailureReturns1 ==
    (pc \in {"done", "raised"} /\ failure \notin {"", "no_key", "key_file"})
        => (pc = "done" /\ returned = 1 /\ diag.line # "")

\* the sources of the key, in the order of priority, as [set, text]
KeySources ==
    <<[set |-> Truthy(explicit_key), readable |-> TRUE, text |-> explicit_key.s],
      [set |-> Truthy(api_key_file), readable |-> key_file # Unreadable, text |-> key_file.s],
      [set |-> Truthy(env_key), readable |-> TRUE, text |-> env_key.s]>>
\* the source of highest priority that is set, 0 when none is
FirstSet == IF \E i \in 1..3 : KeySources[i].set
            THEN CHOOSE i \in 1..3 : KeySources[i].set /\ \A j \in 1..(i - 1) : ~KeySources[j].set
            ELSE 0
Yields(i) == KeySources[i].set /\ KeySources[i].readable /\ Strip(KeySources[i].text) # <<>>
KeyResolved == pc \notin {"read_api_key", "raised"} \/ (pc = "raised" /\ failure # "key_file")
KeyUsedIsFromFirstSet ==
    (KeyResolved /\ FirstSet # 0) => api_key = PyStr(Strip(KeySources[FirstSet].text))

\* C5, as claimed: the key is that of the highest-priority source that is set;
\* when no source yields a key, main returns 2 before the output directory is
\* created and before any network call.
C5_PriorityAndExit2 ==
    /\ KeyUsedIsFromFirstSet
    /\ (pc \in {"done", "raised"} /\ \A i \in 1..3 : ~Yields(i))
          => (pc = "done" /\ returned = 2 /\ steps = <<>>)

\* C5, amended: the key is that of the highest-priority source that is set; when
\* no source is set or the one of highest priority is empty once stripped, main
\* returns 2 before the output directory is created and before any network call;
\* when that source is a key file that cannot be read, the error leaves main
\* uncaught, also before either.
C5_PriorityAndExit2UnlessUnreadable ==
    /\ KeyUsedIsFromFirstSet
    /\ pc \in {"done", "raised"} =>
          IF FirstSet # 0 /\ ~KeySources[FirstSet].readable
          THEN pc = "raised" /\ returned # 2 /\ steps = <<>>
          ELSE (FirstSet = 0 \/ ~Yields(FirstSet)) => (pc = "done" /\ returned = 2 /\ steps = <<>>)
    /\ returned = 2 => steps = <<>>

C5_Witness ==
    /\ explicit_key = PyStr(<<" ", "k", "\n">>)
    /\ Truthy(api_key_file) /\ key_file = PyStr(<<"f", "\n">>)
    /\ env_key = PyStr(<<"e">>)
    /\ api_key = PyStr(<<"k">>)
    /\ pc = "done" /\ returned = 0

\* C6: once a deletion has failed, nothing is raised; the run ends with main
\* returning 0 and with unlink() attempted on every file beyond the N newest.
C6_FailedDeletionDoesNotAbort ==
    unlink_failed # {} =>
        /\ pc \in {"unlink", "done"}
        /\ pc = "done" =>
              /\ returned = 0
              /\ attempted = Range(SubSeq(files, retention + 1, Len(files)))
              /\ attempted = Names(BackupFiles(dir_at_prune)) \ Range(SubSeq(files, 1, retention))

C6_Witness ==
    /\ pc = "done" /\ returned = 0
    /\ Len(files) >= retention + 2
    /\ files[retention + 1] \in unlink_failed
    /\ files[retention + 2] \in attempted \ unlink_failed
    /\ \E e \in dir : e.name = files[retention + 1]

\* C7: the connection is open only inside the with block of
\* start_download_session: it is closed when the fetch starts and whenever the
\* function has returned or raised.
C7_ConnectionClosedOutsideSession ==
    conn_open => pc \in {"login", "call", "parse"}

C7_Witness ==
    /\ pc = "done" /\ failure = "login" /\ returned = 1
    /\ "session" \in Range(steps)
    /\ ~conn_open

\* the first truthy value of a sequence, None when there is none
RECURSIVE FirstTruthy(_)
FirstTruthy(vs) ==
    IF vs = <<>> THEN PyNone
    ELSE IF Truthy(vs[1]) THEN vs[1]
    ELSE FirstTruthy(Tail(vs))
Present(d, ks) == [i \in 1..Len(ks) |-> IF d[ks[i]] = Absent THEN PyNone ELSE d[ks[i]]]
\* the URL and the token the reply supplies, None when it supplies none
SuppliedUrl(r) ==
    IF r.shape = "dict" THEN FirstTruthy(Present(r.d, <<"url", "result", "job_url">>))
    ELSE IF r.shape = "list" /\ Len(r.l) >= 2 THEN FirstTruthy(<<r.l[2]>>)
    ELSE PyNone
SuppliedToken(r) ==
    IF r.shape = "dict" THEN FirstTruthy(Present(r.d, <<"token", "auth_token">>))
    ELSE IF r.shape = "list" /\ Len(r.l) >= 3 THEN FirstTruthy(<<r.l[3]>>)
    ELSE PyNone
ParseRan ==
    \/ pc \in {"fetch", "write", "prune", "unlink"}
    \/ pc \in {"done", "raised"}
         /\ failure \notin {"no_key", "key_file", "mkdir", "connect", "login", "call"}

\* C8: a mapping gives the URL under url, result or job_url and the token under
\* token or auth_token; a sequence gives the URL as element 1 and the token as
\* element 2; the token is '' when none is supplied; any other shape, or a reply
\* with no URL, raises instead of returning a pair.
C8_ReplyToUrlAndToken ==
    ParseRan =>
        IF Truthy(SuppliedUrl(result))
        THEN /\ failure \notin SessionFailures
             /\ download.dl_url = SuppliedUrl(result)
             /\ download.token = (IF Truthy(SuppliedToken(result))
                                  THEN SuppliedToken(result) ELSE PyStr(<<>>))
        ELSE /\ failure \in SessionFailures
             /\ pc = "done" /\ returned = 1
             /\ download = NoDownload

C8_Witness ==
    /\ result = ListReply(<<Token, RelUrl>>)
    /\ pc = "write"
    /\ download = [dl_url |-> RelUrl, token |-> PyStr(<<>>)]

\* C9: for a bare host, http://h, https://h, ws://h or wss://h, with or without
\* /api/current, the address is wss for bare and https, ws for http, unchanged
\* for ws and wss, and ends with /api/current, which occurs in it once.
C9_SchemeAndSuffixOnce ==
    (uri # <<>> /\ host \in ClaimedHostForms) =>
        /\ StartsWith(uri, IF StartsWith(host, HTTP) \/ StartsWith(host, WS) THEN WS ELSE WSS)
        /\ EndsWith(uri, ApiCurrent)
        /\ Occurrences(uri, ApiCurrent) = 1
        /\ Occurrences(uri, <<":", "/", "/">>) = 1

C9_Witness ==
    /\ host = HTTP \o HostIp \o ApiCurrent
    /\ uri = WS \o HostIp \o ApiCurrent

\* the backup files that were there before and are not older than the new one
NotOlderThanNew == {e \in BackupFiles(dir_init) : e.name # NewName /\ e.mtime >= now}

\* C10, as claimed: a run that returns 0 with N >= 1 leaves the file it wrote in
\* the directory, whatever the mtimes of the files already there.
C10_NewFileKept ==
    (pc = "done" /\ returned = 0 /\ retention >= 1) => NewName \in Names(BackupFiles(dir))

\* C10, amended: a run that returns 0 with N >= 1 leaves the file it wrote in the
\* directory when fewer than N of the other backup files have an mtime greater
\* than or equal to the new file's.
C10_NewFileKeptUnlessNotNewest ==
    (pc = "done" /\ returned = 0 /\ retention >= 1 /\ Cardinality(NotOlderThanNew) < retention)
        => NewName \in Names(BackupFiles(dir))

C10_Witness ==
    /\ pc = "done" /\ returned = 0 /\ retention >= 1
    /\ NotOlderThanNew # {}
    /\ Cardinality(NotOlderThanNew) < retention
    /\ attempted # {}
    /\ NewName \in Names(BackupFiles(dir))

====
